---- MODULE Spec2Model ----
(***************************************************************************)
(* parse_maze_file of mazeProjector.py as a state machine.                 *)
(*                                                                         *)
(* A text line is a sequence of one-character strings; the file is the     *)
(* sequence of its physical lines, each ending in "\n" except possibly the *)
(* last.  One action is one step of parse_maze_file: opening the file,     *)
(* one iteration of the list comprehension, leaving the with block, the    *)
(* parity check, the dimension inference and allocation, one iteration of  *)
(* each of the three inner loops, the row advance and the return.          *)
(***************************************************************************)
EXTENDS Integers, Sequences, FiniteSets, TLC

VARIABLES
    exists,      \* whether open(filename) finds the file
    file,        \* the file's physical lines
    handle,      \* "closed" | "open": the file object of the with block
    pos,         \* number of physical lines the comprehension has consumed
    lines,       \* the list built by the comprehension
    pc,          \* position in parse_maze_file
    err,         \* "none" | "SystemExit" | "ValueError" | "IndexError"
    allocated,   \* whether line 58 has run
    maze_rows,
    maze_cols,
    maze,        \* sequence of rows, each a sequence of MazeCell records
    r,           \* loop variable of line 61 (0-based)
    c            \* loop variable of lines 64, 71, 90 (0-based)

vars == <<exists, file, handle, pos, lines, pc, err, allocated,
          maze_rows, maze_cols, maze, r, c>>

----------------------------------------------------------------------------
(* Bounds of the explored inputs. *)

MaxLines == 5

MaxCols == 2

----------------------------------------------------------------------------
(* Python string primitives. *)

NL == "\n"

\* The characters str.strip() removes by default that a text line can hold.
Whitespace == {" ", "\t", "\n", "\r", "\f"}

RECURSIVE LStrip(_)
LStrip(s) ==
    IF s = <<>> THEN <<>>
    ELSE IF Head(s) \in Whitespace THEN LStrip(Tail(s))
    ELSE s

RECURSIVE RStrip(_)
RStrip(s) ==
    IF s = <<>> THEN <<>>
    ELSE IF s[Len(s)] \in Whitespace THEN RStrip(SubSeq(s, 1, Len(s) - 1))
    ELSE s

\* Mutant: only the leading whitespace is removed.
Strip_LeftOnly(s) == LStrip(s)

\* str.strip()
Strip(s) == RStrip(LStrip(s))

\* str.rstrip('\n')
RECURSIVE RStripNewline(_)
RStripNewline(s) ==
    IF s = <<>> THEN <<>>
    ELSE IF s[Len(s)] = NL THEN RStripNewline(SubSeq(s, 1, Len(s) - 1))
    ELSE s

\* s[a:b] for 0 <= a <= b: the slice is cut at the end of s, never an error.
Slice(s, a, b) == SubSeq(s, a + 1, IF b < Len(s) THEN b ELSE Len(s))

\* s[i] for i >= 0 raises IndexError exactly when i >= len(s).
InRange(s, i) == i < Len(s)

CharAt(s, i) == s[i + 1]

----------------------------------------------------------------------------
(* MazeCell and the constants of the format. *)

MazeCell ==
    [north |-> FALSE, east |-> FALSE, south |-> FALSE, west |-> FALSE,
     start |-> FALSE, goal |-> FALSE]

HWall == <<"-", "-", "-">>

VWall == "|"

StartMarker == <<"S">>

GoalMarker == <<"G">>

\* line 43: the comprehension's filter and its element expression
KeepLine(line) == Strip(line) # <<>>

\* Mutant: the segment starts on the vertex character.
SegmentStart_OnVertex(col) == col * 4

SegmentStart(col) == col * 4 + 1

SegmentEnd(col) == col * 4 + 4

WestIndex(col) == col * 4

\* Mutant: the east wall is read from the last interior character.
EastIndex_Interior(col) == col * 4 + 3

EastIndex(col) == col * 4 + 4

TopLineIndex(row) == 2 * row

VerticalLineIndex(row) == 2 * row + 1

\* Mutant: the south walls are read from the row's content line.
BottomLineIndex_Content(row) == 2 * row + 1

BottomLineIndex(row) == 2 * row + 2

\* Mutant: only multiples of four are rejected.
EvenLineCount_Mod4(n) == n % 4 = 0

EvenLineCount(n) == n % 2 = 0

InferRows(n) == (n - 1) \div 2

InferCols(first) == (Len(first) - 1) \div 4

NewMaze(rows, cols) == [i \in 1..rows |-> [j \in 1..cols |-> MazeCell]]

SetCell(m, row, col, fld, val) ==
    [m EXCEPT ![row + 1][col + 1] = [@ EXCEPT ![fld] = val]]

----------------------------------------------------------------------------
(* The input texts. *)

Terminated(body, lastNL) ==
    [i \in 1..Len(body) |->
        IF i < Len(body) \/ lastNL THEN body[i] \o <<NL>> ELSE body[i]]

\* Lines of the general specification: a walled and an open boundary line, a
\* content line, an empty line, a line cut short and a line one character too
\* long.
LinePool ==
    { <<"o", "-", "-", "-", "o">>,
      <<"o", " ", " ", " ", "o">>,
      <<"|", "S", " ", " ", "|">>,
      <<>>,
      <<"o", "-", "-">>,
      <<"o", "-", "-", "-", "o", "o">> }

Bodies == UNION { [1..n -> LinePool] : n \in 0..MaxLines }

TypeOK ==
    /\ exists \in BOOLEAN
    /\ handle \in {"closed", "open"}
    /\ pos \in 0..Len(file)
    /\ pc \in {"start", "iter", "count", "dims", "top", "vert", "bottom",
               "next_row", "return", "done", "raised", "exit"}
    /\ err \in {"none", "SystemExit", "ValueError", "IndexError"}
    /\ allocated \in BOOLEAN

InitWith(f, e) ==
    /\ exists = e
    /\ file = f
    /\ handle = "closed"
    /\ pos = 0
    /\ lines = <<>>
    /\ pc = "start"
    /\ err = "none"
    /\ allocated = FALSE
    /\ maze_rows = 0
    /\ maze_cols = 0
    /\ maze = <<>>
    /\ r = 0
    /\ c = 0

\* Every text of at most MaxLines lines of LinePool, with or without a final
\* newline, and the case of a missing file.
Init ==
    \/ InitWith(<<>>, FALSE)
    \/ \E body \in Bodies, lastNL \in BOOLEAN :
          /\ (body = <<>> => lastNL)
          /\ InitWith(Terminated(body, lastNL), TRUE)

\* One-row maze texts of 1..MaxCols columns, cell by cell.
Interiors ==
    { <<"S", " ", " ">>, <<" ", "S", " ">>, <<" ", " ", "G">>,
      <<"S", "G", " ">>, <<"S", " ", "G">>, <<"s", " ", " ">>,
      <<" ", " ", " ">> }

Segments == { <<"-", "-", "-">>, <<" ", " ", " ">> }

Boundaries == {"|", " "}

RECURSIVE BoundaryLine(_, _)
BoundaryLine(cols, seg) ==
    IF cols = 0 THEN <<"o">>
    ELSE BoundaryLine(cols - 1, seg) \o seg \o <<"o">>

RECURSIVE ContentLine(_, _, _)
ContentLine(cols, bs, ins) ==
    IF cols = 0 THEN <<bs[0]>>
    ELSE ContentLine(cols - 1, bs, ins) \o ins[cols] \o <<bs[cols]>>

Defects == {"none", "no_bottom", "short_content"}

CellText(top, content, bottom, defect) ==
    CASE defect = "none" -> <<top, content, bottom>>
      [] defect = "no_bottom" -> <<top, content>>
      [] defect = "short_content" ->
             <<top, SubSeq(content, 1, Len(content) - 1), bottom>>

\* The 2x2 maze with every wall but the one between (0,0) and (0,1).
Example2x2 ==
    << <<"o", "-", "-", "-", "o", "-", "-", "-", "o">>,
       <<"|", " ", " ", " ", " ", " ", " ", " ", "|">>,
       <<"o", "-", "-", "-", "o", "-", "-", "-", "o">>,
       <<"|", " ", " ", " ", "|", " ", " ", " ", "|">>,
       <<"o", "-", "-", "-", "o", "-", "-", "-", "o">> >>

InitCells ==
    \/ InitWith(<<>>, FALSE)
    \/ InitWith(Terminated(Example2x2, TRUE), TRUE)
    \/ \E cols \in 1..MaxCols :
       \E segT \in Segments, segB \in Segments, defect \in Defects :
       \E bs \in [0..cols -> Boundaries], ins \in [1..cols -> Interiors] :
          InitWith(Terminated(CellText(BoundaryLine(cols, segT),
                                       ContentLine(cols, bs, ins),
                                       BoundaryLine(cols, segB),
                                       defect), TRUE), TRUE)

----------------------------------------------------------------------------
(* parse_maze_file *)

\* line 41, file present: the with block is entered
OpenFile ==
    /\ pc = "start"
    /\ exists
    /\ handle' = "open"
    /\ pc' = "iter"
    /\ UNCHANGED <<exists, file, pos, lines, err, allocated,
                   maze_rows, maze_cols, maze, r, c>>

\* lines 44-46: FileNotFoundError is caught, the process exits with status 1
FileNotFound ==
    /\ pc = "start"
    /\ ~exists
    /\ pc' = "exit"
    /\ err' = "SystemExit"
    /\ UNCHANGED <<exists, file, handle, pos, lines, allocated,
                   maze_rows, maze_cols, maze, r, c>>

\* line 43: one iteration of the comprehension over the file
ReadLine ==
    /\ pc = "iter"
    /\ pos < Len(file)
    /\ LET line == file[pos + 1] IN
         lines' = IF KeepLine(line)
                  THEN Append(lines, RStripNewline(line))
                  ELSE lines
    /\ pos' = pos + 1
    /\ UNCHANGED <<exists, file, handle, pc, err, allocated,
                   maze_rows, maze_cols, maze, r, c>>

\* Mutant: the block is left without closing the file.
CloseFile_Leak ==
    /\ pc = "iter"
    /\ pos = Len(file)
    /\ pc' = "count"
    /\ UNCHANGED <<exists, file, handle, pos, lines, err, allocated,
                   maze_rows, maze_cols, maze, r, c>>

\* lines 41-43: the iteration is exhausted and the with block is left
CloseFile ==
    /\ pc = "iter"
    /\ pos = Len(file)
    /\ handle' = "closed"
    /\ pc' = "count"
    /\ UNCHANGED <<exists, file, pos, lines, err, allocated,
                   maze_rows, maze_cols, maze, r, c>>

\* lines 48-50
CheckLineCount ==
    /\ pc = "count"
    /\ IF EvenLineCount(Len(lines))
       THEN /\ pc' = "raised"
            /\ err' = "ValueError"
       ELSE /\ pc' = "dims"
            /\ err' = err
    /\ UNCHANGED <<exists, file, handle, pos, lines, allocated,
                   maze_rows, maze_cols, maze, r, c>>

\* lines 52-58, and the entry of the loop of line 61
Allocate ==
    /\ pc = "dims"
    /\ maze_rows' = InferRows(Len(lines))
    /\ maze_cols' = InferCols(lines[1])
    /\ maze' = NewMaze(maze_rows', maze_cols')
    /\ allocated' = TRUE
    /\ r' = 0
    /\ c' = 0
    /\ pc' = IF maze_rows' > 0 THEN "top" ELSE "return"
    /\ UNCHANGED <<exists, file, handle, pos, lines, err>>

\* lines 63-67: one iteration of the north loop, or its exit
ParseNorth ==
    /\ pc = "top"
    /\ IF c < maze_cols
       THEN LET horizontal_top == lines[TopLineIndex(r) + 1]
                segment == Slice(horizontal_top, SegmentStart(c), SegmentEnd(c))
            IN /\ maze' = SetCell(maze, r, c, "north", segment = HWall)
               /\ c' = c + 1
               /\ pc' = pc
       ELSE /\ maze' = maze
            /\ c' = 0
            /\ pc' = "vert"
    /\ UNCHANGED <<exists, file, handle, pos, lines, err, allocated,
                   maze_rows, maze_cols, r>>

\* lines 82-86
MarkCell(cell, cell_interior) ==
    LET cell_marker == Strip(cell_interior) IN
    IF cell_marker = StartMarker THEN [cell EXCEPT !.start = TRUE]
    ELSE IF cell_marker = GoalMarker THEN [cell EXCEPT !.goal = TRUE]
    ELSE cell

\* lines 70-86: one iteration of the west/east/marker loop, or its exit
ParseVertical ==
    /\ pc = "vert"
    /\ IF c < maze_cols
       THEN LET vertical_line == lines[VerticalLineIndex(r) + 1] IN
            IF InRange(vertical_line, WestIndex(c))
               /\ InRange(vertical_line, EastIndex(c))
            THEN LET west_char == CharAt(vertical_line, WestIndex(c))
                     cell_interior ==
                         Slice(vertical_line, SegmentStart(c), SegmentEnd(c))
                     east_char == CharAt(vertical_line, EastIndex(c))
                     walled == [maze[r + 1][c + 1] EXCEPT
                                   !.west = (west_char = VWall),
                                   !.east = (east_char = VWall)]
                 IN /\ maze' = [maze EXCEPT ![r + 1][c + 1] =
                                    MarkCell(walled, cell_interior)]
                    /\ c' = c + 1
                    /\ pc' = pc
                    /\ err' = err
            ELSE /\ pc' = "raised"
                 /\ err' = "IndexError"
                 /\ UNCHANGED <<maze, c>>
       ELSE /\ maze' = maze
            /\ c' = 0
            /\ pc' = "bottom"
            /\ err' = err
    /\ UNCHANGED <<exists, file, handle, pos, lines, allocated,
                   maze_rows, maze_cols, r>>

\* lines 89-92: one iteration of the south loop, or its exit
ParseSouth ==
    /\ pc = "bottom"
    /\ IF c < maze_cols
       THEN LET horizontal_bottom == lines[BottomLineIndex(r) + 1]
                segment ==
                    Slice(horizontal_bottom, SegmentStart(c), SegmentEnd(c))
            IN /\ maze' = SetCell(maze, r, c, "south", segment = HWall)
               /\ c' = c + 1
               /\ pc' = pc
       ELSE /\ maze' = maze
            /\ c' = 0
            /\ pc' = "next_row"
    /\ UNCHANGED <<exists, file, handle, pos, lines, err, allocated,
                   maze_rows, maze_cols, r>>

\* line 61: the next row, or the end of the loop
NextRow ==
    /\ pc = "next_row"
    /\ r' = r + 1
    /\ pc' = IF r + 1 < maze_rows THEN "top" ELSE "return"
    /\ UNCHANGED <<exists, file, handle, pos, lines, err, allocated,
                   maze_rows, maze_cols, maze, c>>

\* line 94
Return ==
    /\ pc = "return"
    /\ pc' = "done"
    /\ UNCHANGED <<exists, file, handle, pos, lines, err, allocated,
                   maze_rows, maze_cols, maze, r, c>>

Next ==
    \/ OpenFile
    \/ FileNotFound
    \/ ReadLine
    \/ CloseFile
    \/ CheckLineCount
    \/ Allocate
    \/ ParseNorth
    \/ ParseVertical
    \/ ParseSouth
    \/ NextRow
    \/ Return

Spec == Init /\ [][Next]_vars

SpecCells == InitCells /\ [][Next]_vars

----------------------------------------------------------------------------
(* The input as the claims speak of it. *)

\* line 43 as a whole: the non-blank lines of a file, newline removed
NonBlankLines(f) ==
    LET kept == SelectSeq(f, KeepLine)
    IN [i \in 1..Len(kept) |-> RStripNewline(kept[i])]

Input == NonBlankLines(file)

Returned == pc = "done"

Finished == pc \in {"done", "raised", "exit"}

\* The comprehension, step by step, builds the non-blank lines of the file.
LinesAreNonBlankLines ==
    pc \notin {"start", "iter"} /\ exists => lines = Input

----------------------------------------------------------------------------
(* Claims *)

\* C1: an input whose count of non-blank lines is even (zero included) never
\* gets past the parity check: the only way out is the ValueError, and no
\* grid is allocated and no cell exists at any point.
C1_EvenCountRejected ==
    (exists /\ Len(Input) % 2 = 0) =>
        /\ ~allocated
        /\ maze = <<>>
        /\ pc \in {"start", "iter", "count", "raised"}
        /\ (pc = "raised" => err = "ValueError")

C1_Witness ==
    /\ pc = "raised"
    /\ err = "ValueError"
    /\ Len(Input) = 2
    /\ ~allocated

\* C2: an input with an odd number of non-blank lines whose first line has a
\* length L with (L - 1) mod 4 # 0 is never parsed into a grid.
C2_InexactColumnsRejected ==
    (exists /\ Len(Input) % 2 = 1 /\ (Len(Input[1]) - 1) % 4 # 0) =>
        ~Returned

\* The well-formed rows x cols maze text with no wall and no marker.
BlankMazeText(rows, cols) ==
    [i \in 1..(2 * rows + 1) |->
        IF i % 2 = 1
        THEN BoundaryLine(cols, <<" ", " ", " ">>)
        ELSE [j \in 1..(4 * cols + 1) |-> " "]]

NoWalls(cell) ==
    ~cell.north /\ ~cell.east /\ ~cell.south /\ ~cell.west

\* C3: the blank R x C maze text (R, C >= 1) parses into an R x C grid whose
\* cells have no wall.
C3_BlankMazeParses ==
    \A rows \in 1..MaxLines, cols \in 1..MaxCols :
        (exists /\ Finished /\ file = Terminated(BlankMazeText(rows, cols), TRUE))
        => /\ Returned
           /\ maze_rows = rows
           /\ maze_cols = cols
           /\ Len(maze) = rows
           /\ \A i \in 1..rows :
                 /\ Len(maze[i]) = cols
                 /\ \A j \in 1..cols : NoWalls(maze[i][j])

\* An input of 2R+1 lines of length 4C+1.
WellFormed(in) ==
    /\ Len(in) % 2 = 1
    /\ (Len(in[1]) - 1) % 4 = 0
    /\ \A i \in 1..Len(in) : Len(in[i]) = Len(in[1])

OneCellText ==
    << <<"o", "-", "-", "-", "o">>,
       <<"|", "S", " ", " ", "|">>,
       <<"o", "-", "-", "-", "o">> >>

\* C4: for an accepted input of 2R+1 lines of length 4C+1 the grid is R x C
\* and, for every cell (row, col), north and south say whether characters
\* [4col+1, 4col+4) of lines 2row and 2row+2 are "---", west and east whether
\* characters 4col and 4col+4 of line 2row+1 are "|"; the walled 1x1 maze
\* with an S gives one cell with four walls and the start marker.
C4_WallsFromPositions ==
    /\ (Returned /\ WellFormed(Input)) =>
          /\ maze_rows = (Len(Input) - 1) \div 2
          /\ maze_cols = (Len(Input[1]) - 1) \div 4
          /\ \A row \in 0..(maze_rows - 1), col \in 0..(maze_cols - 1) :
                LET cell == maze[row + 1][col + 1]
                    above == Input[2 * row + 1]
                    here == Input[2 * row + 2]
                    below == Input[2 * row + 3]
                IN /\ cell.north <=>
                        SubSeq(above, 4 * col + 2, 4 * col + 4) = <<"-", "-", "-">>
                   /\ cell.south <=>
                        SubSeq(below, 4 * col + 2, 4 * col + 4) = <<"-", "-", "-">>
                   /\ cell.west <=> here[4 * col + 1] = "|"
                   /\ cell.east <=> here[4 * col + 5] = "|"
    /\ (Finished /\ exists /\ Input = OneCellText) =>
          /\ Returned
          /\ maze = << << [north |-> TRUE, east |-> TRUE, south |-> TRUE,
                           west |-> TRUE, start |-> TRUE, goal |-> FALSE] >> >>

C4_Witness ==
    /\ Returned
    /\ WellFormed(Input)
    /\ maze_rows = 1
    /\ maze_cols = 2
    /\ maze[1][1].north /\ maze[1][1].west /\ ~maze[1][1].east
    /\ maze[1][2].east /\ maze[1][2].start

NonWhitespace(s) == SelectSeq(s, LAMBDA ch : ch \notin Whitespace)

\* C5: in every returned grid a cell is the start exactly when the interior
\* [4col+1, 4col+4) of content line 2row+1 holds an "S" and otherwise only
\* blanks, the goal exactly when it holds a "G" and otherwise only blanks, and
\* never both; any other
\* interior gives no marker and no error: a failure is always due to the
\* shape of the input.
C5_MarkerFromInterior ==
    /\ Returned =>
          \A row \in 0..(maze_rows - 1), col \in 0..(maze_cols - 1) :
             LET cell == maze[row + 1][col + 1]
                 interior == SubSeq(Input[2 * row + 2], 4 * col + 2, 4 * col + 4)
             IN /\ cell.start <=> NonWhitespace(interior) = <<"S">>
                /\ cell.goal <=> NonWhitespace(interior) = <<"G">>
                /\ ~(cell.start /\ cell.goal)
    /\ (pc = "raised" /\ Len(Input) % 2 = 1) =>
          \E i \in 1..Len(Input) : Len(Input[i]) < 4 * maze_cols + 1

C5_Witness ==
    /\ Returned
    /\ maze_rows = 1
    /\ maze_cols = 2
    /\ SubSeq(Input[2], 2, 4) = <<"S", " ", "G">>
    /\ SubSeq(Input[2], 6, 8) = <<" ", "S", " ">>
    /\ ~maze[1][1].start /\ ~maze[1][1].goal
    /\ maze[1][2].start

\* C6: in every returned grid, east of (row, col) equals west of (row, col+1);
\* in the 2x2 example both are false for (0,0) and (0,1).
C6_EastEqualsWest ==
    /\ Returned =>
          \A row \in 1..maze_rows, col \in 1..(maze_cols - 1) :
             maze[row][col].east = maze[row][col + 1].west
    /\ (Returned /\ Input = Example2x2) =>
          /\ ~maze[1][1].east
          /\ ~maze[1][2].west
          /\ maze[2][1].east
          /\ maze[2][2].west

C6_Witness ==
    /\ Returned
    /\ Input = Example2x2
    /\ ~maze[1][1].east
    /\ maze[2][2].west

\* C7: in every returned grid, south of (row, col) equals north of
\* (row+1, col).
C7_SouthEqualsNorth ==
    Returned =>
        \A row \in 1..(maze_rows - 1), col \in 1..maze_cols :
           maze[row][col].south = maze[row + 1][col].north

C7_Witness ==
    /\ Returned
    /\ maze_rows = 2
    /\ maze_cols = 1
    /\ maze[1][1].south
    /\ maze[2][1].north
    /\ ~maze[2][1].south

\* C8: an input with an odd line count in which some line is shorter than
\* 4C+1 characters, C inferred from the first line, is never parsed into a
\* grid.
C8_ShortLineRejected ==
    (/\ exists
     /\ Len(Input) % 2 = 1
     /\ \E i \in 1..Len(Input) :
           Len(Input[i]) < 4 * ((Len(Input[1]) - 1) \div 4) + 1)
    => ~Returned

\* C9: whenever a grid is returned for n non-blank lines with a first line of
\* length L, n = 2 * maze_rows + 1, L = 4 * maze_cols + 1, the grid has
\* maze_rows rows and every row has maze_cols cells.
C9_ExactDimensions ==
    Returned =>
        /\ Len(Input) = 2 * maze_rows + 1
        /\ Len(Input[1]) = 4 * maze_cols + 1
        /\ Len(maze) = maze_rows
        /\ \A i \in 1..Len(maze) : Len(maze[i]) = maze_cols

\* C10: the file is open only while its lines are being iterated: it is
\* closed before the parity check, while cells are populated, on return and
\* on every failure.
C10_HandleReleased ==
    /\ (handle = "open" => pc = "iter")
    /\ (pc \in {"count", "dims", "top", "vert", "bottom", "next_row",
                "return", "done", "raised"} => handle = "closed")

C10_Witness ==
    /\ exists
    /\ pc = "raised"
    /\ err = "IndexError"
    /\ allocated
    /\ handle = "closed"

====
